---- MODULE Spec2Model ----
(***************************************************************************)
(* A model of the `-A` (AUR) and `-C` (cache) commands of aura:            *)
(*   rust/aura/src/command/aur.rs    clone_aur_repos, refresh, install,    *)
(*                                   real_packages, clone_aur_repo, search *)
(*   rust/aura/src/command/cache.rs  backup, copy                          *)
(* Every rayon item of a parallel iterator is a task of its own; a task    *)
(* takes one step when its blocking call starts and one when it ends, so   *)
(* that every interleaving of the pool is a behaviour of the model.        *)
(***************************************************************************)
EXTENDS Integers, Sequences, FiniteSets, TLC

\* ------------------------------------------------------------------ bounds
\* The package names a user may pass.
Names == {"a", "b", "c"}
\* The longest package list passed to one command.
MaxPkgs == 3
\* The number of distinct states of a remote repository (its HEAD).
MaxRev == 2
\* The most entries the clones root holds when refresh reads it.
MaxEntries == 2
\* The most terms passed to one search.
MaxTerms == 2
\* The most records one retrieval returns.
MaxRecords == 2
\* The largest `limit` passed to one search.
MaxLimit == 2

Revs == 1..MaxRev
Lists(S, n) == UNION {[1..k -> S] : k \in 0..n}
Range(s) == {s[i] : i \in DOMAIN s}

\* ------------------------------------------------------------------- state
VARIABLES
  cmd,        \* the command this process runs
  pc,         \* install, backup, search: the statement reached
  ret,        \* the value the command returned, "none" while it runs
  stderr,     \* the package names printed by eprintln!
  log,        \* the messages printed by red!, yellow! and aln!
  faults,     \* the collaborator calls that fail in this run
  fs,         \* the directories clones are written to: path -> content
  task,       \* the position of every item of a batch
  attempted,  \* the version-control calls made for every item
  errors,     \* the failure tokens pushed while collecting
  packages,   \* clone_aur_repos: the `packages` slice
  clones,     \* clone_aur_repos: the collected `Validated`
  run,        \* clone_aur_repos: 1 in the first call, 2 in the repeated call
  after1,     \* clone_aur_repos: fs when the first call returned
  dirents,    \* refresh: the entries read_dir() yields for the clones root
  pulls,      \* refresh: the collected `Validated`
  pkgs,       \* install: the `pkgs` slice
  real,       \* install: the names the metadata provider knows
  partition,  \* install: the PkgPartition real_packages obtained
  rp,         \* install: the value real_packages returned
  source,     \* backup: the entries of the source directory, by name
  target,     \* backup: what is at the target path, and the files in it
  cache_size, \* backup: the file count core::cache::size returned
  pairs,      \* copy: the (from, to) pairs the enumeration produced
  pb,         \* copy: the progress bar's counter
  lock,       \* copy: the items that hold the progress bar's mutex
  input,      \* search: the terms as the user passed them
  terms,      \* search: the `terms` vector
  queries,    \* search: the terms aura_core::aur::search was called with
  retrieved,  \* search: the records the retrieval returned
  matches,    \* search: the `matches` vector
  retained,   \* search: `matches` when retain() returned
  alpha,      \* search: the `alpha` flag
  rev,        \* search: the `rev` flag
  limit,      \* search: the `limit` option, <<>> for None and <<n>> for Some(n)
  stdout      \* search: the records printed, in order

commonVars == <<cmd, pc, ret, stderr, log, faults, fs>>
batchVars == <<task, attempted, errors>>
cloneVars == <<packages, clones, run, after1>>
refreshVars == <<dirents, pulls>>
installVars == <<pkgs, real, partition, rp>>
cacheVars == <<source, target, cache_size, pairs, pb, lock>>
searchVars == <<input, terms, queries, retrieved, matches, retained, alpha, rev, limit, stdout>>
restVars == <<cacheVars, searchVars>>
otherVars == <<installVars, restVars>>
vars == <<commonVars, batchVars, cloneVars, refreshVars, otherVars>>

\* ------------------------------------------------------- the file system
\* A destination is absent, a directory some clone in flight has created
\* ("partial"), or a complete clone at one revision of the remote.
Roots == {"cwd", "clones"}
Paths == Roots \X Names
Absent == [kind |-> "absent", rev |-> 0]
Partial == [kind |-> "partial", rev |-> 0]
Clone(head) == [kind |-> "clone", rev |-> head]
IsClone(c) == c.kind = "clone"

\* aur.rs clone_aur_repo: the destination of a package's clone.
clone_path(root, package) ==
  IF root = "None" THEN <<"cwd", package>> ELSE <<root, package>>

\* `git clone` refuses a destination that exists and is not empty.
CloneRefused(f, path) == f[path] # Absent
\* `git clone` proceeds in a destination that is absent, or one that a
\* racing clone has created and not yet filled.
CloneProceeds(f, path) == f[path] \in {Absent, Partial}
\* What a clone that starts leaves at its destination.
CloneStarted(f, path) == [f EXCEPT ![path] = Partial]
\* What a successful clone leaves at its destination.
CloneDone(f, path, head) == [f EXCEPT ![path] = Clone(head)]
\* What a failed clone may leave: git removes what it created; when another
\* clone writes the same directory either may win.
CloneFailed(f, path, shared) ==
  {[f EXCEPT ![path] = Absent]} \cup
  (IF shared \/ f[path] # Partial THEN {f} ELSE {})

\* --------------------------------------------------------- Validated
NoOutcome == [tag |-> "None", goods |-> 0, bads |-> <<>>]
\* A collector that keeps the first failure only.
CollectedFirst(nOk, errs) ==
  IF errs = <<>> THEN [tag |-> "Good", goods |-> nOk, bads |-> <<>>]
  ELSE [tag |-> "Fail", goods |-> 0, bads |-> <<errs[1]>>]
\* validated: collecting Result<(), E> into Validated<(), E>: Good(()) when no
\* item failed, Fail(failures) otherwise; the Ok items are dropped on Fail.
\* `goods` is the number of Ok items the Good value stands for.
Collected(nOk, errs) ==
  IF errs = <<>> THEN [tag |-> "Good", goods |-> nOk, bads |-> <<>>]
  ELSE [tag |-> "Fail", goods |-> 0, bads |-> errs]

Items == DOMAIN task
Finished(t) == t \in {"ok", "err", "skipped"}
Failed == {i \in Items : task[i] = "err"}
Succeeded == {i \in Items : task[i] = "ok"}
\* The number of times a name occurs in a sequence of names.
Occurs(n, s) == Cardinality({k \in DOMAIN s : s[k] = n})

\* A collector that stops consuming items at the first failure.
CollectReadyFailFast ==
  \/ \A i \in Items : Finished(task[i])
  \/ \E i \in Items : task[i] = "err"
\* collect() returns when the parallel iterator is exhausted.
CollectReady == \A i \in Items : Finished(task[i])

\* ------------------------------------------------- the commands not run
NoFs == [p \in Paths |-> Absent]
CommonOff == pc = "start" /\ ret = "none" /\ stderr = <<>> /\ log = <<>>
BatchOff == task = <<>> /\ attempted = <<>> /\ errors = <<>>
CloneOff == packages = <<>> /\ clones = NoOutcome /\ run = 1 /\ after1 = NoFs
RefreshOff == dirents = <<>> /\ pulls = NoOutcome
NoPartition ==
  [set |-> FALSE, cloned |-> <<>>, to_clone |-> <<>>, not_real |-> <<>>]
NoResult == [tag |-> "None", err |-> "", cloned |-> <<>>, to_clone |-> <<>>]
InstallOff ==
  pkgs = <<>> /\ real = {} /\ partition = NoPartition /\ rp = NoResult
\* The files of a cache directory.
FileNames == {"f.pkg", "g.pkg"}
NoTarget == [kind |-> "absent", files |-> {}]
CacheOff ==
  /\ source = [n \in FileNames |-> "none"] /\ target = NoTarget
  /\ cache_size = 0 /\ pairs = <<>> /\ pb = 0 /\ lock = {}
SearchOff ==
  /\ input = <<>> /\ terms = <<>> /\ queries = <<>> /\ retrieved = <<>>
  /\ matches = <<>> /\ retained = <<>>
  /\ alpha = FALSE /\ rev = FALSE /\ limit = <<>> /\ stdout = <<>>

\* ------------------------------------------------------- clone_aur_repos
InitClone ==
  /\ cmd = "clone" /\ CommonOff /\ RefreshOff /\ InstallOff /\ CacheOff
  /\ SearchOff
  /\ faults = {}
  /\ fs = NoFs
  /\ packages \in Lists(Names, MaxPkgs)
  /\ task = [i \in DOMAIN packages |-> "todo"]
  /\ attempted = [i \in DOMAIN packages |-> 0]
  /\ errors = <<>>
  /\ clones = NoOutcome
  /\ run = 1
  /\ after1 = NoFs

\* An item that clears its destination before it clones into it.
StartCloneOverwrite(i) ==
  /\ cmd = "clone" /\ clones.tag = "None"
  /\ i \in Items /\ task[i] = "todo"
  /\ attempted' = [attempted EXCEPT ![i] = @ + 1]
  /\ fs' = CloneStarted(fs, clone_path("None", packages[i]))
  /\ task' = [task EXCEPT ![i] = "cloning"]
  /\ UNCHANGED <<cmd, pc, ret, stderr, log, faults, errors, cloneVars, refreshVars, otherVars>>

\* aur.rs 235-238: the item's closure calls clone_aur_repo(None, p), which
\* starts `git clone`; a refusal is mapped to the package name at once.
StartClone(i) ==
  /\ cmd = "clone" /\ clones.tag = "None"
  /\ i \in Items /\ task[i] = "todo"
  /\ attempted' = [attempted EXCEPT ![i] = @ + 1]
  /\ LET path == clone_path("None", packages[i]) IN
       \/ /\ CloneProceeds(fs, path)
          /\ fs' = CloneStarted(fs, path)
          /\ task' = [task EXCEPT ![i] = "cloning"]
          /\ UNCHANGED errors
       \/ /\ CloneRefused(fs, path)
          /\ task' = [task EXCEPT ![i] = "err"]
          /\ errors' = Append(errors, packages[i])
          /\ UNCHANGED fs
  /\ UNCHANGED <<cmd, pc, ret, stderr, log, faults, cloneVars, refreshVars, otherVars>>

\* aur.rs 238-240: the clone ends; map_err(|_| pkg) keeps the name of a
\* failed package and the collector pushes it under its lock.
FinishClone(i) ==
  /\ cmd = "clone"
  /\ i \in Items /\ task[i] = "cloning"
  /\ LET path == clone_path("None", packages[i])
         shared == \E j \in Items \ {i} :
                      /\ task[j] = "cloning"
                      /\ clone_path("None", packages[j]) = path
     IN
       \/ /\ \E head \in Revs : fs' = CloneDone(fs, path, head)
          /\ task' = [task EXCEPT ![i] = "ok"]
          /\ UNCHANGED errors
       \/ /\ fs' \in CloneFailed(fs, path, shared)
          /\ task' = [task EXCEPT ![i] = "err"]
          /\ errors' = Append(errors, packages[i])
  /\ UNCHANGED <<cmd, pc, ret, stderr, log, faults, attempted, cloneVars, refreshVars, otherVars>>

\* aur.rs 233-240: collect() into Validated<(), &str>.
Collect ==
  /\ cmd = "clone" /\ clones.tag = "None"
  /\ CollectReady
  /\ clones' = Collected(Cardinality({i \in Items : task[i] = "ok"}), errors)
  /\ UNCHANGED <<commonVars, batchVars, packages, run, after1, refreshVars, otherVars>>

\* A report that returns Ok whatever was collected.
ReportAlwaysOk ==
  /\ cmd = "clone" /\ clones.tag # "None" /\ ret = "none"
  /\ ret' = "Ok" /\ UNCHANGED stderr
  /\ UNCHANGED <<cmd, pc, log, faults, fs, batchVars, cloneVars, refreshVars, otherVars>>
\* aur.rs 242-256: report the outcome and return.
Report ==
  /\ cmd = "clone" /\ clones.tag # "None" /\ ret = "none"
  /\ IF clones.tag = "Good"
       THEN ret' = "Ok" /\ UNCHANGED stderr
       ELSE ret' = "Err" /\ stderr' = stderr \o clones.bads
  /\ UNCHANGED <<cmd, pc, log, faults, fs, batchVars, cloneVars, refreshVars, otherVars>>

\* The caller runs clone_aur_repos once more on the same packages.
Again ==
  /\ cmd = "clone" /\ ret # "none" /\ run = 1
  /\ run' = 2
  /\ after1' = fs
  /\ task' = [i \in DOMAIN packages |-> "todo"]
  /\ attempted' = [i \in DOMAIN packages |-> 0]
  /\ errors' = <<>>
  /\ clones' = NoOutcome
  /\ stderr' = <<>>
  /\ ret' = "none"
  /\ UNCHANGED <<cmd, pc, log, faults, fs, packages, refreshVars, otherVars>>

NextClone ==
  \/ \E i \in 1..MaxPkgs : StartClone(i)
  \/ \E i \in 1..MaxPkgs : FinishClone(i)
  \/ Collect
  \/ Report
  \/ Again

SpecClone == InitClone /\ [][NextClone]_vars


\* ---------------------------------------------------------------- refresh
\* A file name that is not valid UTF-8.
NonUtf8 == "\\xFF"
EntryNames == Names \cup {NonUtf8}
\* An entry of the clones root: its name, whether its file type is a
\* directory, and whether the entry and its file type can be read.
Entry == [name : EntryNames, is_dir : BOOLEAN, readable : BOOLEAN]
Listings(n) ==
  {l \in Lists(Entry, n) :
     \A i, j \in DOMAIN l : l[i].name = l[j].name => i = j}
\* OsString::into_string succeeds on valid UTF-8 only.
into_string_ok(name) == name # NonUtf8
\* aur.rs 264-267: the entries that reach the pull.
Pulled(e) == e.readable /\ e.is_dir /\ into_string_ok(e.name)

InitRefresh ==
  /\ cmd = "refresh" /\ CommonOff /\ BatchOff /\ CloneOff /\ InstallOff
  /\ CacheOff /\ SearchOff
  /\ faults \in {{}, {"dirs::clones"}, {"read_dir"}}
  /\ fs = NoFs
  /\ dirents \in Listings(MaxEntries)
  /\ pulls = NoOutcome

\* aur.rs 262-267: find the clones root and enumerate its directories; either
\* call failing returns the error at once.
ReadDir ==
  /\ cmd = "refresh" /\ pc = "start"
  /\ IF faults # {}
       THEN /\ pc' = "done" /\ ret' = "Err"
            /\ UNCHANGED batchVars
       ELSE /\ pc' = "pulling" /\ UNCHANGED ret
            /\ task' = [i \in DOMAIN dirents |->
                          IF Pulled(dirents[i]) THEN "todo" ELSE "skipped"]
            /\ attempted' = [i \in DOMAIN dirents |-> 0]
            /\ UNCHANGED errors
  /\ UNCHANGED <<cmd, stderr, log, faults, fs, cloneVars, refreshVars, otherVars>>

\* aur.rs 268: the item's closure calls aura_core::git::pull(&path).
StartPull(i) ==
  /\ cmd = "refresh" /\ pc = "pulling"
  /\ i \in Items /\ task[i] = "todo"
  /\ task' = [task EXCEPT ![i] = "pulling"]
  /\ attempted' = [attempted EXCEPT ![i] = @ + 1]
  /\ UNCHANGED <<commonVars, errors, cloneVars, refreshVars, otherVars>>

\* A pull that is tried again when it fails.
FinishPullRetry(i) ==
  /\ cmd = "refresh"
  /\ i \in Items /\ task[i] = "pulling"
  /\ \/ task' = [task EXCEPT ![i] = "ok"]
     \/ task' = [task EXCEPT ![i] = "todo"]
  /\ UNCHANGED <<commonVars, attempted, errors, cloneVars, refreshVars, otherVars>>

\* aur.rs 268-269: the pull ends; map_err(|_| pkg.clone()) keeps the name of
\* a failed directory and the collector pushes it.
FinishPull(i) ==
  /\ cmd = "refresh"
  /\ i \in Items /\ task[i] = "pulling"
  /\ \/ /\ task' = [task EXCEPT ![i] = "ok"]
        /\ UNCHANGED errors
     \/ /\ task' = [task EXCEPT ![i] = "err"]
        /\ errors' = Append(errors, dirents[i].name)
  /\ UNCHANGED <<commonVars, attempted, cloneVars, refreshVars, otherVars>>

\* aur.rs 262-269: collect() into Validated<(), String>.
CollectPulls ==
  /\ cmd = "refresh" /\ pc = "pulling"
  /\ CollectReady
  /\ pulls' = Collected(Cardinality(Succeeded), errors)
  /\ pc' = "collected"
  /\ UNCHANGED <<cmd, ret, stderr, log, faults, fs, batchVars, cloneVars, dirents, otherVars>>

\* aur.rs 271-285: report the outcome and return.
ReportPulls ==
  /\ cmd = "refresh" /\ pc = "collected"
  /\ IF pulls.tag = "Good"
       THEN ret' = "Ok" /\ UNCHANGED stderr
       ELSE ret' = "Err" /\ stderr' = stderr \o pulls.bads
  /\ pc' = "done"
  /\ UNCHANGED <<cmd, log, faults, fs, batchVars, cloneVars, refreshVars, otherVars>>

NextRefresh ==
  \/ ReadDir
  \/ \E i \in 1..MaxEntries : StartPull(i)
  \/ \E i \in 1..MaxEntries : FinishPull(i)
  \/ CollectPulls
  \/ ReportPulls

SpecRefresh == InitRefresh /\ [][NextRefresh]_vars

\* ------------------------------------------- the two parallel syncs
InitSync == InitClone \/ InitRefresh
NextSync == NextClone \/ NextRefresh
SpecSync == InitSync /\ [][NextSync]_vars
\* The items a batch was given, and the name of each.
InputItems == {i \in Items : task[i] # "skipped"}
ItemName(i) == IF cmd = "refresh" THEN dirents[i].name ELSE packages[i]
\* The outcome the sync collected, and the successes it records.
Outcome == IF cmd = "refresh" THEN pulls ELSE clones


\* ---------------------------------------------------------------- install
\* The clone inventory: the names present under the clones root.
Inventory(f) == {n \in Names : f[<<"clones", n>>] # Absent}
\* A partitioner that asks the provider before it looks at the inventory.
partition_provider_first(inventory, known, names) ==
  [set |-> TRUE,
   cloned |-> SelectSeq(names, LAMBDA n : n \in inventory /\ n \in known),
   to_clone |-> SelectSeq(names, LAMBDA n : n \notin inventory /\ n \in known),
   not_real |-> SelectSeq(names, LAMBDA n : n \notin known)]
\* aura_core::aur::partition_aur_pkgs: a name of the inventory is cloned; any
\* other name is to_clone when the provider knows it and not_real otherwise.
\* Each sequence keeps the order of the input.
partition_aur_pkgs(inventory, known, names) ==
  [set |-> TRUE,
   cloned |-> SelectSeq(names, LAMBDA n : n \in inventory),
   to_clone |-> SelectSeq(names, LAMBDA n : n \notin inventory /\ n \in known),
   not_real |-> SelectSeq(names, LAMBDA n : n \notin inventory /\ n \notin known)]

\* A check that gives up as soon as one of the two sequences is empty.
NothingValidEither(cloned, to_clone) == cloned = <<>> \/ to_clone = <<>>
\* aur.rs 326: nothing valid to do.
NothingValid(cloned, to_clone) == cloned = <<>> /\ to_clone = <<>>

\* aur.rs 331-333: one warning per name that is not a real package.
Unreal(not_real) == [i \in DOMAIN not_real |-> [msg |-> "A-unreal", pkg |-> not_real[i]]]

InitInstall ==
  /\ cmd = "install" /\ CommonOff /\ BatchOff /\ CloneOff /\ RefreshOff
  /\ CacheOff /\ SearchOff
  /\ faults \in {{}, {"dirs::clones"}, {"dirs::builds"}, {"aur::info"}}
  /\ fs \in {f \in [Paths -> {Absent, Clone(1)}] :
               \A n \in Names : f[<<"cwd", n>>] = Absent}
  /\ pkgs \in Lists(Names, MaxPkgs)
  /\ real \in SUBSET Names
  /\ partition = NoPartition
  /\ rp = NoResult

\* aur.rs 292-296: exit early if the user passed no packages.
InstallEnter ==
  /\ cmd = "install" /\ pc = "start"
  /\ IF pkgs = <<>>
       THEN /\ log' = Append(log, [msg |-> "common-no-packages", pkg |-> ""])
            /\ ret' = "Err" /\ pc' = "done"
       ELSE /\ pc' = "real_packages" /\ UNCHANGED <<log, ret>>
  /\ UNCHANGED <<cmd, stderr, faults, fs, batchVars, cloneVars, refreshVars, otherVars>>

\* aur.rs 298, 315-336: real_packages, and the `?` install applies to it.
RealPackages ==
  /\ cmd = "install" /\ pc = "real_packages"
  /\ IF "dirs::clones" \in faults
       THEN /\ rp' = [NoResult EXCEPT !.tag = "Err", !.err = "Dirs"]
            /\ ret' = "Err" /\ pc' = "done"
            /\ UNCHANGED <<log, partition>>
     ELSE IF "aur::info" \in faults
       THEN /\ rp' = [NoResult EXCEPT !.tag = "Err", !.err = "Raur"]
            /\ ret' = "Err" /\ pc' = "done"
            /\ UNCHANGED <<log, partition>>
     ELSE LET part == partition_aur_pkgs(Inventory(fs), real, pkgs) IN
       /\ partition' = part
       /\ IF NothingValid(part.cloned, part.to_clone)
            THEN /\ log' = Append(log, [msg |-> "common-no-valid", pkg |-> ""])
                 /\ rp' = [NoResult EXCEPT !.tag = "Err", !.err = "Silent"]
                 /\ ret' = "Err" /\ pc' = "done"
            ELSE /\ log' = log \o Unreal(part.not_real)
                 /\ rp' = [tag |-> "Ok", err |-> "",
                           cloned |-> part.cloned, to_clone |-> part.to_clone]
                 /\ pc' = "dirs" /\ UNCHANGED ret
  /\ UNCHANGED <<cmd, stderr, faults, fs, batchVars, cloneVars, refreshVars, pkgs, real, restVars>>

\* aur.rs 302-303: the clone and build directories; the loop over to_clone
\* starts when both are found.
InstallDirs ==
  /\ cmd = "install" /\ pc = "dirs"
  /\ IF "dirs::builds" \in faults
       THEN /\ ret' = "Err" /\ pc' = "done"
            /\ UNCHANGED batchVars
       ELSE /\ pc' = "cloning" /\ UNCHANGED ret
            /\ task' = [i \in DOMAIN rp.to_clone |-> "todo"]
            /\ attempted' = [i \in DOMAIN rp.to_clone |-> 0]
            /\ UNCHANGED errors
  /\ UNCHANGED <<cmd, stderr, log, faults, fs, cloneVars, refreshVars, otherVars>>

\* A loop that starts the clone of any package of to_clone at any time.
InstallStartCloneAny(i) ==
  /\ cmd = "install" /\ pc = "cloning"
  /\ i \in Items /\ task[i] = "todo"
  /\ attempted' = [attempted EXCEPT ![i] = @ + 1]
  /\ LET path == clone_path("clones", rp.to_clone[i]) IN
       \/ /\ CloneProceeds(fs, path)
          /\ fs' = CloneStarted(fs, path)
          /\ task' = [task EXCEPT ![i] = "cloning"]
          /\ UNCHANGED <<pc, ret>>
       \/ /\ CloneRefused(fs, path)
          /\ task' = [task EXCEPT ![i] = "err"]
          /\ ret' = "Err" /\ pc' = "done"
          /\ UNCHANGED fs
  /\ UNCHANGED <<cmd, stderr, log, faults, errors, cloneVars, refreshVars, otherVars>>

\* aur.rs 308-309: the next package of to_clone, once every package before it
\* is cloned: clone_aur_repo(Some(&clone_dir), p) starts `git clone`, and a
\* refusal leaves install through `?`.
InstallStartClone(i) ==
  /\ cmd = "install" /\ pc = "cloning"
  /\ i \in Items /\ task[i] = "todo"
  /\ \A j \in Items : j < i => task[j] = "ok"
  /\ attempted' = [attempted EXCEPT ![i] = @ + 1]
  /\ LET path == clone_path("clones", rp.to_clone[i]) IN
       \/ /\ CloneProceeds(fs, path)
          /\ fs' = CloneStarted(fs, path)
          /\ task' = [task EXCEPT ![i] = "cloning"]
          /\ UNCHANGED <<pc, ret>>
       \/ /\ CloneRefused(fs, path)
          /\ task' = [task EXCEPT ![i] = "err"]
          /\ ret' = "Err" /\ pc' = "done"
          /\ UNCHANGED fs
  /\ UNCHANGED <<cmd, stderr, log, faults, errors, cloneVars, refreshVars, otherVars>>

\* aur.rs 309: the clone ends; a failure leaves install through `?`.
InstallFinishClone(i) ==
  /\ cmd = "install" /\ pc = "cloning"
  /\ i \in Items /\ task[i] = "cloning"
  /\ LET path == clone_path("clones", rp.to_clone[i]) IN
       \/ /\ \E head \in Revs : fs' = CloneDone(fs, path, head)
          /\ task' = [task EXCEPT ![i] = "ok"]
          /\ UNCHANGED <<pc, ret>>
       \/ /\ fs' \in CloneFailed(fs, path, FALSE)
          /\ task' = [task EXCEPT ![i] = "err"]
          /\ ret' = "Err" /\ pc' = "done"
  /\ UNCHANGED <<cmd, stderr, log, faults, attempted, errors, cloneVars, refreshVars, otherVars>>

\* aur.rs 310-312: the loop is over.
InstallDone ==
  /\ cmd = "install" /\ pc = "cloning"
  /\ \A i \in Items : task[i] = "ok"
  /\ ret' = "Ok" /\ pc' = "done"
  /\ UNCHANGED <<cmd, stderr, log, faults, fs, batchVars, cloneVars, refreshVars, otherVars>>

NextInstall ==
  \/ InstallEnter
  \/ RealPackages
  \/ InstallDirs
  \/ \E i \in 1..MaxPkgs : InstallStartClone(i)
  \/ \E i \in 1..MaxPkgs : InstallFinishClone(i)
  \/ InstallDone

SpecInstall == InitInstall /\ [][NextInstall]_vars


\* ------------------------------- the commands that clone or pull
InitVcs == InitClone \/ InitRefresh \/ InitInstall
NextVcs == NextClone \/ NextRefresh \/ NextInstall
SpecVcs == InitVcs /\ [][NextVcs]_vars


\* ----------------------------------------------------------- backup, copy
\* core::cache::size: the number of files of the source directory.
FileCount(src) == Cardinality({n \in FileNames : src[n] = "file"})
\* The entries of a directory in the order read_dir() yields them.
RECURSIVE Enumerate(_)
Enumerate(S) ==
  IF S = {} THEN <<>>
  ELSE LET n == CHOOSE x \in S : TRUE IN <<n>> \o Enumerate(S \ {n})
\* cache.rs 136-143: an entry's path and the path it is copied to.
Pair(name) == [from |-> <<"source", name>>, to |-> <<"target", name>>]

InitBackup ==
  /\ cmd = "backup" /\ CommonOff /\ BatchOff /\ CloneOff /\ RefreshOff
  /\ InstallOff /\ SearchOff
  /\ fs = NoFs
  /\ faults \in {{}, {"current_dir"}, {"to_str"}, {"cache::size"}, {"prompt"},
                 {"create_dir_all"}, {"read_dir"}}
  /\ source \in [FileNames -> {"none", "file", "dir"}]
  /\ target \in {[kind |-> "absent", files |-> {}], [kind |-> "file", files |-> {}]}
                  \cup {[kind |-> "dir", files |-> F] : F \in SUBSET FileNames}
  /\ cache_size = 0 /\ pairs = <<>> /\ pb = 0 /\ lock = {}

\* A backup that does not look at what the target is.
BackupEnterUnchecked ==
  /\ cmd = "backup" /\ pc = "start"
  /\ IF "current_dir" \in faults
       THEN ret' = "Err" /\ pc' = "done"
     ELSE IF "to_str" \in faults
       THEN ret' = "Panic" /\ pc' = "done"
       ELSE pc' = "size" /\ UNCHANGED ret
  /\ UNCHANGED <<cmd, stderr, log, faults, fs, batchVars, cloneVars, refreshVars, installVars, cacheVars, searchVars>>

\* cache.rs 88-100: the absolute target path, which to_str().unwrap() takes
\* for valid UTF-8 (it panics otherwise); a target that is a file ends the
\* backup.
BackupEnter ==
  /\ cmd = "backup" /\ pc = "start"
  /\ IF "current_dir" \in faults
       THEN ret' = "Err" /\ pc' = "done" /\ UNCHANGED log
     ELSE IF "to_str" \in faults
       THEN ret' = "Panic" /\ pc' = "done" /\ UNCHANGED log
     ELSE IF target.kind = "file"
       THEN /\ log' = Append(log, [msg |-> "cache-backup-file", pkg |-> ""])
            /\ ret' = "Err" /\ pc' = "done"
       ELSE pc' = "size" /\ UNCHANGED <<log, ret>>
  /\ UNCHANGED <<cmd, stderr, faults, fs, batchVars, cloneVars, refreshVars, installVars, cacheVars, searchVars>>

\* cache.rs 102-105: how big is the current cache?
CacheSize ==
  /\ cmd = "backup" /\ pc = "size"
  /\ IF "cache::size" \in faults
       THEN ret' = "Err" /\ pc' = "done" /\ UNCHANGED <<log, cache_size>>
       ELSE /\ cache_size' = FileCount(source)
            /\ log' = Append(log, [msg |-> "cache-backup-size", pkg |-> ""])
            /\ pc' = "target" /\ UNCHANGED ret
  /\ UNCHANGED <<cmd, stderr, faults, fs, batchVars, cloneVars, refreshVars, installVars,
                 source, target, pairs, pb, lock, searchVars>>

\* cache.rs 107-113: is the target directory empty?
TargetCount ==
  /\ cmd = "backup" /\ pc = "target"
  /\ log' = Append(log, [msg |-> IF target.files # {} THEN "cache-backup-nonempty"
                                  ELSE "cache-backup-target", pkg |-> ""])
  /\ pc' = "prompt"
  /\ UNCHANGED <<cmd, ret, stderr, faults, fs, batchVars, cloneVars, refreshVars, installVars, cacheVars, searchVars>>

\* While backup waits for the user's answer another process adds, removes or
\* replaces an entry of the source directory.
SourceChanges ==
  /\ cmd = "backup" /\ pc = "prompt"
  /\ \E n \in FileNames, k \in {"none", "file", "dir"} :
       /\ source[n] # k
       /\ source' = [source EXCEPT ![n] = k]
  /\ UNCHANGED <<commonVars, batchVars, cloneVars, refreshVars, installVars,
                 target, cache_size, pairs, pb, lock, searchVars>>

\* cache.rs 115-118: proceed if the user accepts.
Prompt ==
  /\ cmd = "backup" /\ pc = "prompt"
  /\ IF "prompt" \in faults
       THEN ret' = "Err" /\ pc' = "done"
       ELSE pc' = "copy" /\ UNCHANGED ret
  /\ UNCHANGED <<cmd, stderr, log, faults, fs, batchVars, cloneVars, refreshVars, installVars, cacheVars, searchVars>>

\* cache.rs 128-144: the progress bar, the target directory and the
\* enumeration of the source; an entry that cannot be read is dropped.
CopyEnter ==
  /\ cmd = "backup" /\ pc = "copy"
  /\ pb' = 0 /\ lock' = {}
  /\ IF "create_dir_all" \in faults
       THEN /\ ret' = "Err" /\ pc' = "done"
            /\ UNCHANGED <<target, pairs, batchVars>>
     ELSE IF "read_dir" \in faults
       THEN /\ target' = [target EXCEPT !.kind = "dir"]
            /\ ret' = "Err" /\ pc' = "done"
            /\ UNCHANGED <<pairs, batchVars>>
       ELSE \E read \in SUBSET {n \in FileNames : source[n] # "none"} :
            LET ps == [i \in DOMAIN Enumerate(read) |-> Pair(Enumerate(read)[i])] IN
              /\ target' = [target EXCEPT !.kind = "dir"]
              /\ pairs' = ps
              /\ task' = [i \in DOMAIN ps |-> "todo"]
              /\ attempted' = [i \in DOMAIN ps |-> 0]
              /\ pc' = "copying"
              /\ UNCHANGED <<ret, errors>>
  /\ UNCHANGED <<cmd, stderr, log, faults, fs, cloneVars, refreshVars, installVars,
                 source, cache_size, searchVars>>

\* A worker that takes the progress lock before it copies.
StartCopyLocked(i) ==
  /\ cmd = "backup" /\ pc = "copying"
  /\ i \in Items /\ task[i] = "todo"
  /\ lock = {}
  /\ lock' = {i}
  /\ task' = [task EXCEPT ![i] = "copying"]
  /\ attempted' = [attempted EXCEPT ![i] = @ + 1]
  /\ UNCHANGED <<commonVars, errors, cloneVars, refreshVars, installVars,
                 source, target, cache_size, pairs, pb, searchVars>>

\* cache.rs 145-146: a worker starts std::fs::copy(from, to).
StartCopy(i) ==
  /\ cmd = "backup" /\ pc = "copying"
  /\ i \in Items /\ task[i] = "todo"
  /\ task' = [task EXCEPT ![i] = "copying"]
  /\ attempted' = [attempted EXCEPT ![i] = @ + 1]
  /\ UNCHANGED <<commonVars, errors, cloneVars, refreshVars, otherVars>>

\* A copy whose failure ends the whole batch with an error.
FinishCopyAborts(i) ==
  /\ cmd = "backup" /\ pc = "copying"
  /\ i \in Items /\ task[i] = "copying"
  /\ \/ /\ source[pairs[i].from[2]] = "file"
        /\ target' = [target EXCEPT !.files = @ \cup {pairs[i].to[2]}]
        /\ task' = [task EXCEPT ![i] = "copied"]
        /\ UNCHANGED <<pc, ret>>
     \/ /\ task' = [task EXCEPT ![i] = "err"]
        /\ ret' = "Err" /\ pc' = "done"
        /\ UNCHANGED target
  /\ UNCHANGED <<cmd, stderr, log, faults, fs, attempted, errors, cloneVars, refreshVars,
                 installVars, source, cache_size, pairs, pb, lock, searchVars>>

\* cache.rs 146: the copy ends. Only a regular file can be copied; any copy
\* may fail, and a failed copy is dropped.
FinishCopy(i) ==
  /\ cmd = "backup" /\ pc = "copying"
  /\ i \in Items /\ task[i] = "copying"
  /\ \/ /\ source[pairs[i].from[2]] = "file"
        /\ target' = [target EXCEPT !.files = @ \cup {pairs[i].to[2]}]
        /\ task' = [task EXCEPT ![i] = "copied"]
     \/ /\ task' = [task EXCEPT ![i] = "err"]
        /\ UNCHANGED target
  /\ UNCHANGED <<commonVars, attempted, errors, cloneVars, refreshVars, installVars,
                 source, cache_size, pairs, pb, lock, searchVars>>

\* A worker that enters the increment without waiting for the lock.
LockPbUnguarded(i) ==
  /\ cmd = "backup" /\ pc = "copying"
  /\ i \in Items /\ task[i] = "copied"
  /\ lock' = lock \cup {i}
  /\ task' = [task EXCEPT ![i] = "locked"]
  /\ UNCHANGED <<commonVars, attempted, errors, cloneVars, refreshVars, installVars,
                 source, target, cache_size, pairs, pb, searchVars>>

\* cache.rs 147: pb.lock()
LockPb(i) ==
  /\ cmd = "backup" /\ pc = "copying"
  /\ i \in Items /\ task[i] = "copied"
  /\ lock = {}
  /\ lock' = {i}
  /\ task' = [task EXCEPT ![i] = "locked"]
  /\ UNCHANGED <<commonVars, attempted, errors, cloneVars, refreshVars, installVars,
                 source, target, cache_size, pairs, pb, searchVars>>

\* An increment that never gives the lock back.
IncPbKeepsLock(i) ==
  /\ cmd = "backup" /\ pc = "copying"
  /\ i \in Items /\ task[i] = "locked"
  /\ pb' = pb + 1
  /\ task' = [task EXCEPT ![i] = "ok"]
  /\ UNCHANGED <<commonVars, attempted, errors, cloneVars, refreshVars, installVars,
                 source, target, cache_size, pairs, lock, searchVars>>

\* cache.rs 147: .inc(), and the guard is dropped at the end of the statement.
IncPb(i) ==
  /\ cmd = "backup" /\ pc = "copying"
  /\ i \in Items /\ task[i] = "locked"
  /\ pb' = pb + 1
  /\ lock' = {}
  /\ task' = [task EXCEPT ![i] = "ok"]
  /\ UNCHANGED <<commonVars, attempted, errors, cloneVars, refreshVars, installVars,
                 source, target, cache_size, pairs, searchVars>>

\* A copy that returns as soon as every pair was handed to a worker.
CopyReturnEarly ==
  /\ cmd = "backup" /\ pc = "copying"
  /\ \A i \in Items : task[i] # "todo"
  /\ ret' = "Ok" /\ pc' = "done"
  /\ UNCHANGED <<cmd, stderr, log, faults, fs, batchVars, cloneVars, refreshVars, otherVars>>

\* cache.rs 149-150: for_each returns when every pair is consumed.
CopyReturn ==
  /\ cmd = "backup" /\ pc = "copying"
  /\ CollectReady
  /\ ret' = "Ok" /\ pc' = "done"
  /\ UNCHANGED <<cmd, stderr, log, faults, fs, batchVars, cloneVars, refreshVars, otherVars>>

NextBackup ==
  \/ BackupEnter
  \/ CacheSize
  \/ TargetCount
  \/ SourceChanges
  \/ Prompt
  \/ CopyEnter
  \/ \E i \in 1..Cardinality(FileNames) : StartCopy(i)
  \/ \E i \in 1..Cardinality(FileNames) : FinishCopy(i)
  \/ \E i \in 1..Cardinality(FileNames) : LockPb(i)
  \/ \E i \in 1..Cardinality(FileNames) : IncPb(i)
  \/ CopyReturn

SpecBackup == InitBackup /\ [][NextBackup]_vars


\* ------------------------------------- the three parallel batches
\* clone_aur_repos, refresh and backup's copy: the commands that hand their
\* items to the rayon pool.
InitBatch == InitClone \/ InitRefresh \/ InitBackup
NextBatch == NextClone \/ NextRefresh \/ NextBackup
SpecBatch == InitBatch /\ [][NextBatch]_vars
\* One call of a batch: clone_aur_repos is not called again when it returns.
NextCall ==
  \/ \E i \in 1..MaxPkgs : StartClone(i)
  \/ \E i \in 1..MaxPkgs : FinishClone(i)
  \/ Collect
  \/ Report
  \/ NextRefresh
  \/ NextBackup
\* Fair scheduling of a batch: the pool runs every item that is ready, every
\* clone, pull and file copy that has started ends, a worker that asks for
\* the free lock gets it and completes its increment, and the thread that
\* waits for the batch goes on when the batch is over.
FairBatch ==
  /\ InitBatch /\ [][NextCall]_vars
  /\ \A i \in 1..MaxPkgs : WF_vars(StartClone(i)) /\ WF_vars(FinishClone(i))
  /\ WF_vars(Collect) /\ WF_vars(Report)
  /\ WF_vars(ReadDir)
  /\ \A i \in 1..MaxEntries : WF_vars(StartPull(i)) /\ WF_vars(FinishPull(i))
  /\ WF_vars(CollectPulls) /\ WF_vars(ReportPulls)
  /\ WF_vars(CopyEnter)
  /\ \A i \in 1..Cardinality(FileNames) :
       /\ WF_vars(StartCopy(i)) /\ WF_vars(FinishCopy(i))
       /\ WF_vars(LockPb(i)) /\ WF_vars(IncPb(i))
  /\ WF_vars(CopyReturn)
\* The path the worker of an item writes.
WritePath(i) ==
  IF cmd = "backup" THEN pairs[i].to ELSE clone_path("None", packages[i])
\* The workers that are inside their clone or their file copy.
Writing == {i \in Items : task[i] \in {"cloning", "copying"}}


\* ----------------------------------------------------------------- search
\* The characters of the strings, in the order of their UTF-8 encoding:
\* "EE" and "ee" stand for a two-byte upper-case letter and its lower case.
Alphabet == <<"A", "B", "a", "b", "EE", "ee">>
Code(c) == CHOOSE i \in DOMAIN Alphabet : Alphabet[i] = c
\* The bytes of a character's encoding.
Utf8Len(c) == IF c \in {"EE", "ee"} THEN 2 ELSE 1
\* str::len: the length of a string in bytes.
RECURSIVE len(_)
len(t) == IF t = <<>> THEN 0 ELSE Utf8Len(Head(t)) + len(Tail(t))
\* u8::to_ascii_lowercase: the ASCII letters only.
ascii_lowercase(c) == CASE c = "A" -> "a" [] c = "B" -> "b" [] OTHER -> c
\* char::to_lowercase: every letter.
lowercase(c) == CASE c = "EE" -> "ee" [] OTHER -> ascii_lowercase(c)
\* str::make_ascii_lowercase
make_ascii_lowercase(t) == [i \in DOMAIN t |-> ascii_lowercase(t[i])]
\* str::to_lowercase
to_lowercase(t) == [i \in DOMAIN t |-> lowercase(t[i])]
\* str::contains
contains(t, pat) ==
  \E k \in 0..(Len(t) - Len(pat)) : SubSeq(t, k + 1, k + Len(pat)) = pat
\* str::cmp is less: the byte-wise lexicographic order.
RECURSIVE StrLess(_, _)
StrLess(x, y) ==
  IF y = <<>> THEN FALSE
  ELSE IF x = <<>> THEN TRUE
  ELSE IF Head(x) = Head(y) THEN StrLess(Tail(x), Tail(y))
  ELSE Code(Head(x)) < Code(Head(y))

\* The terms a user may pass and the records the provider may return.
TermPool == {<<"a">>, <<"B">>, <<"EE">>, <<"a", "b">>}
RecordPool ==
  [name : {<<"a", "b">>, <<"B">>},
   description : {<<>>, <<<<"EE", "a">>>>},
   num_votes : 0..1]
Limits == {<<>>} \cup {<<n>> : n \in 0..MaxLimit}

\* aur.rs 153: the orders sort_unstable_by_key(|t| t.len()) may leave.
SortedByLen(ts) ==
  {[i \in DOMAIN ts |-> ts[p[i]]] : p \in
     {q \in [DOMAIN ts -> DOMAIN ts] :
        /\ \A i, j \in DOMAIN ts : q[i] = q[j] => i = j
        /\ \A i, j \in DOMAIN ts : i < j => len(ts[q[i]]) <= len(ts[q[j]])}}

\* aur.rs 164-172: the predicate of retain().
Keeps(ts, m) ==
  LET name == to_lowercase(m.name)
      description == IF m.description = <<>> THEN <<>>
                     ELSE to_lowercase(m.description[1])
  IN \A i \in DOMAIN ts : contains(name, ts[i]) \/ contains(description, ts[i])

\* A comparison by ascending vote count.
BeforeFewerVotes(byName, a, b) ==
  IF byName THEN StrLess(a.name, b.name) ELSE a.num_votes < b.num_votes
\* aur.rs 177, 179: whether the comparator orders a before b.
Before(byName, a, b) ==
  IF byName THEN StrLess(a.name, b.name) ELSE b.num_votes < a.num_votes
\* slice::sort_by is stable: an element goes behind the elements it does
\* not come before.
RECURSIVE Insert(_, _, _)
Insert(byName, sorted, x) ==
  IF sorted = <<>> THEN <<x>>
  ELSE IF Before(byName, x, Head(sorted))
    THEN <<x>> \o sorted
    ELSE <<Head(sorted)>> \o Insert(byName, Tail(sorted), x)
RECURSIVE sort_by(_, _)
sort_by(byName, ms) ==
  IF ms = <<>> THEN <<>>
  ELSE Insert(byName, sort_by(byName, SubSeq(ms, 1, Len(ms) - 1)), ms[Len(ms)])
\* slice::reverse
reverse(ms) == [i \in DOMAIN ms |-> ms[Len(ms) + 1 - i]]
\* Iterator::take
take(ms, n) == SubSeq(ms, 1, IF n < Len(ms) THEN n ELSE Len(ms))

InitSearch ==
  /\ cmd = "search" /\ CommonOff /\ BatchOff /\ CloneOff /\ RefreshOff
  /\ InstallOff /\ CacheOff
  /\ fs = NoFs
  /\ faults \in {{}, {"aur::search"}}
  /\ input \in Lists(TermPool, MaxTerms) \ {<<>>}
  /\ terms = input
  /\ queries = <<>> /\ retrieved = <<>> /\ matches = <<>> /\ retained = <<>>
  /\ alpha = FALSE /\ rev = FALSE /\ limit = <<>> /\ stdout = <<>>

\* aur.rs 152-156: sanitize the input.
Sanitize ==
  /\ cmd = "search" /\ pc = "start"
  /\ \E sorted \in SortedByLen(terms) :
       terms' = [i \in DOMAIN sorted |-> make_ascii_lowercase(sorted[i])]
  /\ pc' = "query"
  /\ UNCHANGED <<cmd, ret, stderr, log, faults, fs, batchVars, cloneVars, refreshVars,
                 installVars, cacheVars, input, queries, retrieved, matches, retained,
                 alpha, rev, limit, stdout>>

\* aur.rs 158-160: search using the largest term.
Retrieve ==
  /\ cmd = "search" /\ pc = "query"
  /\ LET initial_term == terms[Len(terms)] IN
       /\ terms' = SubSeq(terms, 1, Len(terms) - 1)
       /\ queries' = Append(queries, initial_term)
       /\ IF "aur::search" \in faults
            THEN /\ ret' = "Err" /\ pc' = "done"
                 /\ UNCHANGED <<retrieved, matches>>
            ELSE /\ \E found \in Lists(RecordPool, MaxRecords) :
                      retrieved' = found /\ matches' = found
                 /\ pc' = "retain" /\ UNCHANGED ret
  /\ UNCHANGED <<cmd, stderr, log, faults, fs, batchVars, cloneVars, refreshVars,
                 installVars, cacheVars, input, retained, alpha, rev, limit, stdout>>

\* aur.rs 162-173: filter out packages that don't match other search terms.
Retain ==
  /\ cmd = "search" /\ pc = "retain"
  /\ matches' = SelectSeq(matches, LAMBDA m : Keeps(terms, m))
  /\ retained' = matches'
  /\ pc' = "sort"
  /\ UNCHANGED <<cmd, ret, stderr, log, faults, fs, batchVars, cloneVars, refreshVars,
                 installVars, cacheVars, input, terms, queries, retrieved,
                 alpha, rev, limit, stdout>>

\* aur.rs 175-180: sort by name, or by votes.
Sort ==
  /\ cmd = "search" /\ pc = "sort"
  /\ \E byName \in BOOLEAN :
       /\ alpha' = byName
       /\ matches' = sort_by(byName, matches)
  /\ pc' = "reverse"
  /\ UNCHANGED <<cmd, ret, stderr, log, faults, fs, batchVars, cloneVars, refreshVars,
                 installVars, cacheVars, input, terms, queries, retrieved, retained,
                 rev, limit, stdout>>

\* aur.rs 181-183: reverse when asked to.
Reverse ==
  /\ cmd = "search" /\ pc = "reverse"
  /\ \E backwards \in BOOLEAN :
       /\ rev' = backwards
       /\ matches' = IF backwards THEN reverse(matches) ELSE matches
  /\ pc' = "print"
  /\ UNCHANGED <<cmd, ret, stderr, log, faults, fs, batchVars, cloneVars, refreshVars,
                 installVars, cacheVars, input, terms, queries, retrieved, retained,
                 alpha, limit, stdout>>

\* aur.rs 184-208: print the first to_take records.
PrintMatches ==
  /\ cmd = "search" /\ pc = "print"
  /\ \E upTo \in Limits :
       /\ limit' = upTo
       /\ LET to_take == IF upTo = <<>> THEN Len(matches) ELSE upTo[1] IN
            stdout' = take(matches, to_take)
  /\ ret' = "Ok" /\ pc' = "done"
  /\ UNCHANGED <<cmd, stderr, log, faults, fs, batchVars, cloneVars, refreshVars,
                 installVars, cacheVars, input, terms, queries, retrieved, matches,
                 retained, alpha, rev>>

NextSearch ==
  \/ Sanitize
  \/ Retrieve
  \/ Retain
  \/ Sort
  \/ Reverse
  \/ PrintMatches

SpecSearch == InitSearch /\ [][NextSearch]_vars

\* ------------------------------------------------------------------ claims
\* C1: clone_aur_repos does not short-circuit. When it returns, the clone of
\* every input package was attempted, whichever clones failed and in whatever
\* order the tasks ran, and the names it reported are exactly the names of
\* the packages whose clone failed; the outcome is never collected while a
\* package is still waiting behind a failed one.
C1_NonShortCircuit ==
  /\ (\E i \in Items : task[i] = "todo") => clones.tag = "None"
  /\ ret # "none" =>
       /\ \A i \in Items : attempted[i] >= 1
       /\ Range(stderr) = {packages[i] : i \in Failed}
C1_Witness ==
  /\ ret = "Err" /\ Len(packages) = 2
  /\ task[1] = "err" /\ task[2] = "ok" /\ attempted[2] = 1
  /\ stderr = <<packages[1]>>

C8_OneQueryThenFilter ==
  (cmd = "search" /\ pc \in {"sort", "reverse", "print", "done"} /\ ret # "Err") =>
    /\ Len(queries) = 1
    /\ \E k \in DOMAIN input :
         /\ to_lowercase(queries[1]) = to_lowercase(input[k])
         /\ \A j \in DOMAIN input : len(to_lowercase(input[j])) <= len(queries[1])
         /\ retained = SelectSeq(retrieved, LAMBDA m :
                          \A j \in DOMAIN input \ {k} :
                            \/ contains(to_lowercase(m.name), to_lowercase(input[j]))
                            \/ /\ m.description # <<>>
                               /\ contains(to_lowercase(m.description[1]),
                                           to_lowercase(input[j])))

\* C9: the records search prints are the retained records in a stable order,
\* by name ascending when alpha is set and by vote count descending
\* otherwise (records that tie keep their retrieval order), the whole
\* reversed when rev is set, cut to the first `limit` records when a limit
\* is given.
C9_Ordered ==
  (cmd = "search" /\ pc = "done" /\ ret = "Ok") =>
    \E p \in [DOMAIN retained -> DOMAIN retained] :
      LET ordered == [i \in DOMAIN retained |-> retained[p[i]]]
          final == IF rev THEN [i \in DOMAIN ordered |-> ordered[Len(ordered) + 1 - i]]
                   ELSE ordered
      IN /\ \A i, j \in DOMAIN p : p[i] = p[j] => i = j
         /\ \A i, j \in DOMAIN ordered : i < j =>
              IF alpha
                THEN /\ ~StrLess(ordered[j].name, ordered[i].name)
                     /\ ordered[i].name = ordered[j].name => p[i] < p[j]
                ELSE /\ ordered[i].num_votes >= ordered[j].num_votes
                     /\ ordered[i].num_votes = ordered[j].num_votes => p[i] < p[j]
         /\ Len(stdout) = (IF limit # <<>> /\ limit[1] < Len(final)
                             THEN limit[1] ELSE Len(final))
         /\ \A i \in DOMAIN stdout : stdout[i] = final[i]
C9_Witness ==
  /\ cmd = "search" /\ pc = "done" /\ ret = "Ok"
  /\ ~alpha /\ rev /\ limit = <<1>>
  /\ Len(retained) = 2
  /\ retained[1].num_votes = retained[2].num_votes
  /\ retained[1] # retained[2]
  /\ stdout = <<retained[2]>>

\* C10: clone_aur_repos returns Ok exactly when no clone failed (an empty
\* input attempts nothing, reports nothing and returns Ok) and returns Err
\* exactly when some clone failed, after printing the name of every failed
\* package once per failed item.
C10_ReturnValue ==
  ret # "none" =>
    /\ (ret = "Ok") <=> (Failed = {})
    /\ (ret = "Err") <=> (Failed # {})
    /\ \A n \in Names :
         Occurs(n, stderr) = Cardinality({i \in Failed : packages[i] = n})
    /\ packages = <<>> => (ret = "Ok" /\ stderr = <<>> /\ attempted = <<>>)
C10_Witness ==
  /\ ret = "Err" /\ Len(packages) = 3
  /\ Cardinality(Failed) = 2 /\ Len(stderr) = 2

\* C3: in install the failure of one package's clone does not stop the clone
\* of the other packages of to_clone: when install has returned, the clone of
\* every package of to_clone was attempted.
C3_InstallClonesAll ==
  (cmd = "install" /\ pc = "done" /\ rp.tag = "Ok" /\ "dirs::builds" \notin faults)
    => \A i \in DOMAIN rp.to_clone : i \in Items /\ attempted[i] >= 1

\* C4 as stated: when a cache backup has completed, the progress counter is
\* at most the file count of the pre-flight step, and every entry counted in
\* the progress is in the target, whatever copies failed, however the workers
\* interleaved, and also when the source directory changed after the
\* pre-flight step.
C4_Original ==
  (cmd = "backup" /\ pc = "done" /\ ret = "Ok") =>
    /\ pb <= cache_size
    /\ \A i \in Items : task[i] = "ok" => pairs[i].to[2] \in target.files

\* C5: the partition is exact. Every requested name occurs in cloned,
\* to_clone and not_real together as often as it was requested, no name is in
\* two of them, and a name of the clone inventory is in cloned whatever the
\* provider answers for it. (Stated where the inventory is still the one the
\* partition read: before install starts to clone.)
C5_PartitionExact ==
  (partition.set /\ Items = {}) =>
    /\ \A n \in Names :
         Occurs(n, partition.cloned) + Occurs(n, partition.to_clone)
           + Occurs(n, partition.not_real) = Occurs(n, pkgs)
    /\ Range(partition.cloned) \cap Range(partition.to_clone) = {}
    /\ Range(partition.cloned) \cap Range(partition.not_real) = {}
    /\ Range(partition.to_clone) \cap Range(partition.not_real) = {}
    /\ \A n \in Range(pkgs) \cap Inventory(fs) : n \in Range(partition.cloned)
C5_Witness ==
  /\ partition.set /\ Items = {}
  /\ \E n \in Range(partition.cloned) : n \notin real
  /\ partition.to_clone # <<>> /\ partition.not_real # <<>>

\* C6: when cloned and to_clone are both empty real_packages returns the
\* "nothing valid" error and install attempts no clone; otherwise it returns
\* exactly the two sequences.
C6_NothingValid ==
  partition.set =>
    IF partition.cloned = <<>> /\ partition.to_clone = <<>>
      THEN /\ rp.tag = "Err" /\ rp.err = "Silent"
           /\ log = <<[msg |-> "common-no-valid", pkg |-> ""]>>
           /\ ret = "Err" /\ pc = "done"
           /\ Items = {} /\ \A path \in Paths : fs[path] # Partial
      ELSE /\ rp.tag = "Ok"
           /\ rp.cloned = partition.cloned
           /\ rp.to_clone = partition.to_clone
C6_Witness ==
  /\ partition.set /\ pkgs # <<>>
  /\ partition.cloned = <<>> /\ partition.to_clone = <<>>
  /\ ret = "Err"

\* C7 as stated: after the second run of clone_aur_repos on the same fresh
\* package set the clone directories are those the first run left.
C7_Original == (run = 2 /\ ret # "none") => fs = after1
\* C7 amended: the second run never alters or removes a clone the first run
\* produced, and its clone of such a package fails; it may still add the
\* clone of a package whose first clone failed, so the final directories are
\* those of a single run when every clone of the first run succeeded.
C7_SecondRunKeepsClones ==
  run = 2 =>
    /\ \A path \in Paths : IsClone(after1[path]) => fs[path] = after1[path]
    /\ \A i \in Items :
         (IsClone(after1[clone_path("None", packages[i])]) /\ attempted[i] > 0)
           => task[i] = "err"
    /\ ( /\ ret # "none"
         /\ \A i \in Items : IsClone(after1[clone_path("None", packages[i])]) )
       => fs = after1
C7_Witness ==
  /\ run = 2 /\ ret = "Err" /\ Len(packages) = 2 /\ packages[1] # packages[2]
  /\ \A i \in Items : IsClone(after1[clone_path("None", packages[i])])
  /\ fs = after1

\* C11: the increments of the progress counter in copy are mutually
\* exclusive and none is lost. At most one worker is inside the increment
\* (holds the lock) at any time, the counter is the number of workers that
\* completed their increment, and when copy has returned it is the number of
\* entries whose file copy succeeded, whatever the interleaving.
C11_ExclusiveIncrements ==
  cmd = "backup" =>
    /\ Cardinality({i \in Items : task[i] = "locked"}) <= 1
    /\ lock = {i \in Items : task[i] = "locked"}
    /\ pb = Cardinality(Succeeded)
    /\ (pc = "done" /\ ret = "Ok") => pb = Cardinality(Items \ Failed)
C11_Witness ==
  /\ cmd = "backup" /\ pc = "done" /\ ret = "Ok"
  /\ Len(pairs) = 2 /\ pb = 2

\* C12: in copy the progress lock is held for one increment only. A worker
\* that has not started its file copy, is inside it, or has finished it and
\* not yet asked for the lock, does not hold the lock; so while one worker
\* is inside a file copy every other worker can take its next step: start
\* its copy, end it, take the lock when no increment is under way, and
\* complete its increment.
C12_LockOnlyForIncrement ==
  (cmd = "backup" /\ pc = "copying") =>
    /\ \A i \in Items : task[i] \in {"todo", "copying", "copied"} => i \notin lock
    /\ \A i \in Items : task[i] = "copying" =>
         \A j \in Items \ {i} :
           /\ task[j] = "todo" => ENABLED StartCopy(j)
           /\ task[j] = "copying" => ENABLED FinishCopy(j)
           /\ (task[j] = "copied" /\ \A k \in Items : task[k] # "locked")
                => ENABLED LockPb(j)
           /\ task[j] = "locked" => ENABLED IncPb(j)
C12_Witness ==
  /\ cmd = "backup" /\ pc = "copying"
  /\ \E i, j \in Items : task[i] = "copying" /\ task[j] = "locked" /\ lock = {j}

\* C13: a file copy that fails in copy is skipped silently. It is never
\* counted in the progress, nothing is printed for it, it leaves every other
\* worker able to start and to end its own copy, and it does not change the
\* result: backup returns an error only for a failure that precedes the
\* workers (no absolute path, a target that is a file, the size, the prompt,
\* the creation of the target, the opening of the source), and once the
\* workers have run copy returns Ok whatever subset of the copies failed.
C13_FailureSkipped ==
  cmd = "backup" =>
    /\ pb + Cardinality(Failed) <= Cardinality(Items)
    /\ stderr = <<>> /\ errors = <<>>
    /\ pc = "copying" =>
         /\ ret = "none"
         /\ Failed # {} =>
              \A j \in Items :
                /\ task[j] = "todo" => ENABLED StartCopy(j)
                /\ task[j] = "copying" => ENABLED FinishCopy(j)
    /\ (pc = "done" /\ ret = "Err") =>
         /\ Items = {} /\ pb = 0
         /\ faults # {} \/ target.kind = "file"
    /\ (pc = "done" /\ Items # {}) =>
         /\ ret = "Ok" /\ target.kind = "dir"
         /\ pb = Cardinality(Items \ Failed)
C13_Witness ==
  /\ cmd = "backup" /\ pc = "done" /\ ret = "Ok"
  /\ Len(pairs) = 2 /\ Cardinality(Failed) = 1 /\ pb = 1

\* C14: when the target of backup is a regular file, backup does nothing but
\* abort. In every state the size of the source is not computed, no message
\* but the refusal is printed, the prompt is not reached, no pair is
\* enumerated and no worker exists; and the only step backup takes leaves
\* the target as it is, ends the command and does not return Ok.
C14_FileTargetAborts ==
  /\ [](  (cmd = "backup" /\ target.kind = "file") =>
            /\ pc \in {"start", "done"}
            /\ cache_size = 0 /\ pairs = <<>> /\ Items = {} /\ pb = 0
            /\ target.files = {}
            /\ \A k \in DOMAIN log : log[k].msg = "cache-backup-file"
            /\ pc = "done" => ret \in {"Err", "Panic"}
            /\ (pc = "done" /\ faults = {}) =>
                 (ret = "Err" /\ log = <<[msg |-> "cache-backup-file", pkg |-> ""]>>)  )
  /\ [][ (cmd = "backup" /\ target.kind = "file") =>
            /\ target' = target /\ source' = source
            /\ UNCHANGED <<cache_size, pairs, task, attempted, pb, lock>>
            /\ pc' = "done" /\ ret' \in {"Err", "Panic"} ]_vars
C14_Witness ==
  /\ cmd = "backup" /\ target.kind = "file" /\ pc = "done" /\ ret = "Err"
  /\ log = <<[msg |-> "cache-backup-file", pkg |-> ""]>>
  /\ \E n \in FileNames : source[n] = "file"

\* C15: no two workers that run at the same time write the same path: in
\* clone_aur_repos two clones in flight have different destinations, for
\* every list of package names, and in copy no two pairs have the same
\* target file.
C15_DistinctPaths ==
  /\ cmd = "clone" =>
       \A i, j \in Writing : i # j => WritePath(i) # WritePath(j)
  /\ cmd = "backup" =>
       \A i, j \in Items : i # j => WritePath(i) # WritePath(j)

\* C16: refresh pulls exactly the directories of the clones root. When it
\* has returned after reading the root, every entry that is a directory
\* (stated here for the entries that could be read) was pulled, no other
\* entry was pulled or is reported, and the names reported are the names of
\* the directories whose pull failed.
C16_PullsDirectories ==
  (cmd = "refresh" /\ pc = "done" /\ faults = {}) =>
    /\ \A i \in DOMAIN dirents :
         (dirents[i].readable /\ dirents[i].is_dir) => attempted[i] = 1
    /\ \A i \in DOMAIN dirents :
         ~dirents[i].is_dir =>
           (attempted[i] = 0 /\ dirents[i].name \notin Range(stderr))
    /\ Range(stderr) = {dirents[i].name : i \in Failed}

\* C17: no retry. Within one call of clone_aur_repos, install or refresh the
\* clone or pull of an item is invoked at most once: never twice while the
\* call runs, exactly once for an item that has succeeded or failed, and an
\* item that failed is not started again.
C17_NoRetry ==
  /\ [](  cmd \in {"clone", "refresh", "install"} =>
            \A i \in Items :
              /\ attempted[i] <= 1
              /\ task[i] \in {"ok", "err"} => attempted[i] = 1
              /\ task[i] \in {"todo", "skipped"} => attempted[i] = 0  )
  /\ [][ \A i \in Items :
            (task[i] = "err" /\ ~(cmd = "clone" /\ run' # run)) =>
              (i \in DOMAIN task' /\ task'[i] = "err"
                 /\ attempted'[i] = attempted[i]) ]_vars
C17_Witness ==
  /\ cmd = "refresh" /\ ret = "Err"
  /\ \E i, j \in Items :
       /\ task[i] = "err" /\ attempted[i] = 1
       /\ task[j] = "ok" /\ attempted[j] = 1

\* C18: a parallel batch reports only when every worker has finished. Once
\* clone_aur_repos or refresh has collected its outcome, printed a name or
\* returned, and once copy has returned, no item is waiting to start and no
\* clone, pull, file copy or increment is still running.
C18_ReportAfterAll ==
  /\ cmd = "clone" =>
       ((clones.tag # "None" \/ ret # "none" \/ stderr # <<>>)
          => \A i \in Items : Finished(task[i]))
  /\ cmd = "refresh" =>
       ((pc \in {"collected", "done"} \/ ret # "none" \/ stderr # <<>>)
          => \A i \in Items : Finished(task[i]))
  /\ cmd = "backup" =>
       ((pc = "done" \/ ret # "none")
          => (lock = {} /\ \A i \in Items : Finished(task[i])))
C18_Witness ==
  /\ cmd = "backup" /\ pc = "done" /\ ret = "Ok"
  /\ task = <<"ok", "err">>

\* C19: install clones only what is missing and validated. No clone is
\* attempted when the package list is empty or real_packages returned an
\* error; the items cloned are the packages of to_clone, none of which is in
\* cloned or in not_real; they are cloned in the order of to_clone, one at a
\* time, a package starting only when every package before it is cloned; and
\* every change of the file system is at the package's directory under the
\* clones root, made by the step of that package.
C19_ClonesOnlyToClone ==
  /\ [](  cmd = "install" =>
            /\ (pkgs = <<>> \/ rp.tag # "Ok") => Items = {}
            /\ Items # {} => Items = DOMAIN rp.to_clone
            /\ \A i \in Items :
                 attempted[i] >= 1 =>
                   /\ \A j \in Items : j < i => task[j] = "ok"
                   /\ rp.to_clone[i] \in Range(pkgs)
                   /\ rp.to_clone[i] \notin Range(partition.cloned)
                   /\ rp.to_clone[i] \notin Range(partition.not_real)
            /\ Cardinality({i \in Items : task[i] = "cloning"}) <= 1
            /\ \A n \in Names : fs[<<"cwd", n>>] = Absent  )
  /\ [][ (cmd = "install" /\ fs' # fs) =>
            \E i \in DOMAIN rp.to_clone :
              /\ task'[i] # task[i]
              /\ \A path \in Paths :
                   path # <<"clones", rp.to_clone[i]>> => fs'[path] = fs[path] ]_vars
C19_Witness ==
  /\ cmd = "install" /\ pc = "done" /\ ret = "Ok"
  /\ Len(rp.to_clone) = 2 /\ rp.to_clone[1] # rp.to_clone[2]
  /\ Len(partition.cloned) = 1
  /\ \A i \in Items : attempted[i] = 1 /\ IsClone(fs[<<"clones", rp.to_clone[i]>>])

\* C20: under fair scheduling, with every clone, pull and file copy ending
\* in success or failure, a batch that is running returns: clone_aur_repos
\* and refresh from their start, copy from the moment backup calls it.
C20_BatchReturns ==
  ( /\ ret = "none"
    /\ \/ cmd \in {"clone", "refresh"}
       \/ cmd = "backup" /\ pc \in {"copy", "copying"} )
    ~> (ret # "none")
C20_Witness ==
  /\ cmd = "backup" /\ pc = "done" /\ ret = "Ok"
  /\ task = <<"ok", "ok">> /\ lock = {}
====
